---- MODULE Spec2Model ----
(***************************************************************************)
(* E-LONDA front end: the ballot page (VotingPage), the unified login page *)
(* (HomePage) and the candidate/officer login form (Login), as state       *)
(* machines.  Every handler is split at its `await`: one action up to the  *)
(* request, one action per way the request can settle.                     *)
(***************************************************************************)
EXTENDS Integers, Sequences, FiniteSets, TLC

\* ------------------------------------------------------------------------
\* Bounds of the model
\* ------------------------------------------------------------------------
\* how often the location object may change while VotingPage stays mounted
MaxLocationChanges == 1
\* how many times the user may press "submit" on the ballot
MaxSubmits == 2
\* how many times a login form may be submitted
MaxLoginAttempts == 2
\* how many times the user may come back to a login page
MaxVisits == 1

\* ------------------------------------------------------------------------
\* JavaScript values
\* ------------------------------------------------------------------------
\* `undefined` (a missing property) and `null` (localStorage.getItem of a
\* missing key); both are falsy, as is the empty string.
Undefined == "<undefined>"
Null == "<null>"
Truthy(x) == x # Undefined /\ x # Null /\ x # ""
\* a || b
JsOr(a, b) == IF Truthy(a) THEN a ELSE b

\* s without its i-th element
RemoveAt(s, i) == [j \in 1..(Len(s) - 1) |-> IF j < i THEN s[j] ELSE s[j + 1]]

Tokens == {"t1", "t2"}
\* what location.state?.ballotToken can evaluate to
NavTokenValues == Tokens \cup {Undefined, ""}
\* what localStorage.getItem('ballotToken') can evaluate to
StoredTokenValues == Tokens \cup {Null, ""}

\* ------------------------------------------------------------------------
\* Ballot payload
\* ------------------------------------------------------------------------
Positions == {"p1", "p2"}
Candidates == {"c1", "c2", "c3"}
\* Candidate.position.id
CandPos(c) == IF c = "c3" THEN "p2" ELSE "p1"

\* A getBallot response: positions / candidates may be missing (the code reads
\* them with ?. and || []), so each carries a "defined" flag.
OptionalLists(lists) ==
  {[def |-> FALSE, list |-> {}]} \cup {[def |-> TRUE, list |-> l] : l \in lists}
BallotResponses ==
  { [posDef |-> p.def, positions |-> p.list,
     candDef |-> c.def, candidates |-> c.list] :
      p \in OptionalLists({{}, {"p1", "p2"}}),
      c \in OptionalLists({{}, {"c1", "c2"}, {"c1", "c2", "c3"}}) }
NoResponse == [posDef |-> FALSE, positions |-> {}, candDef |-> FALSE,
               candidates |-> {}]
\* list || []
OrEmpty(def, list) == IF def THEN list ELSE {}

\* err.response?.status of a rejected request; 0 stands for "no response"
\* (a network error, err.response undefined)
ErrorStatuses == {400, 401, 500, 0}

NoBallot == [loaded |-> FALSE, positions |-> {}, candidates |-> {}]

VARIABLES
  \* ---- VotingPage ----
  navToken,        \* location.state?.ballotToken
  lsBallotToken,   \* localStorage 'ballotToken'
  page,            \* the route shown: "vote" while VotingPage is mounted
  effectPending,   \* the token effect is scheduled (mount, or location changed)
  locChanges,      \* how often the location object changed after mount
  ballotToken,     \* useState('')
  loading,         \* useState(true)
  submitting,      \* useState(false)
  ballotData,      \* useState(null)
  votes,           \* useState({}): the set of (positionId, candidateId) entries
  getBallotCalls,  \* how many times votesAPI.getBallot was called
  ballotInFlight,  \* tokens of the getBallot requests not yet settled
  submitCalls,     \* how many vote submission requests were sent
  submitInFlight,  \* bodies of the submission requests not yet settled
  last             \* the handler that ran last: its name, the notification it
                   \* showed, and the response or error status it was handed

votingVars == << navToken, lsBallotToken, page, effectPending, locChanges,
                 ballotToken, loading, submitting, ballotData, votes,
                 getBallotCalls, ballotInFlight, submitCalls, submitInFlight,
                 last >>

VARIABLES
  \* ---- HomePage and Login ----
  route,           \* the route shown: "/" is HomePage, "/login" is Login
  mountId,         \* which instance of a login page is mounted
  navCount,        \* how many times a login handler called navigate
  error,           \* useState(''): the error message of the form
  formLoading,     \* useState(false): the form's loading flag
  lsToken,         \* localStorage 'token'
  lsUser,          \* localStorage 'user'
  lsWelcome,       \* localStorage 'welcomeMessage'
  ssPendingRegNo,  \* sessionStorage 'pendingRegNo'
  ssOtpSent,       \* sessionStorage 'otpAlreadySent'
  loginCalls,      \* how many times authAPI.login was called
  otpCalls,        \* how many times verificationAPI.requestOTP was called
  loginInFlight,   \* authAPI.login requests not yet settled
  otpInFlight,     \* requestOTP requests not yet settled
  attempts,        \* submissions of a login form so far
  lastLogin        \* the login handler that ran last, the response it was
                   \* handed and the route it navigated to

VARIABLES
  \* ---- ForgotPasswordPage (shown at "/forgot-password") ----
  viewState,       \* useState('form'): 'form' or 'confirmation'
  forgotCalls,     \* how many times authAPI.forgotPassword was called
  forgotInFlight   \* the forgotPassword requests that have not settled

forgotVars == << viewState, forgotCalls, forgotInFlight >>

loginVars == << route, mountId, navCount, error, formLoading,
                lsToken, lsUser, lsWelcome, ssPendingRegNo, ssOtpSent,
                loginCalls, otpCalls, loginInFlight, otpInFlight, attempts,
                lastLogin, forgotVars >>

VARIABLES
  \* ---- server.cjs ----
  dist,            \* the files of the dist directory besides index.html
  request,         \* the request being handled
  stage,           \* which middleware has it: "idle", "static", "fallback", "done"
  response         \* what was sent for it

serverVars == << dist, request, stage, response >>

vars == << votingVars, loginVars, serverVars >>

Ran(handler, toast) ==
  [handler |-> handler, toast |-> toast, status |-> 0, resp |-> NoResponse]

\* ------------------------------------------------------------------------
\* VotingPage
\* ------------------------------------------------------------------------
VotingInit ==
  /\ navToken \in NavTokenValues
  /\ lsBallotToken \in StoredTokenValues
  /\ page = "vote"
  /\ effectPending = TRUE
  /\ locChanges = 0
  /\ ballotToken = ""
  /\ loading = TRUE
  /\ submitting = FALSE
  /\ ballotData = NoBallot
  /\ votes = {}
  /\ getBallotCalls = 0
  /\ ballotInFlight = << >>
  /\ submitCalls = 0
  /\ submitInFlight = << >>
  /\ last = Ran("none", "none")

\* (mutation: the stored token is preferred to the one in navigation state)
TokenLookupStoredFirst(nav, stored) == JsOr(stored, nav)
\* const token = location.state?.ballotToken || localStorage.getItem('ballotToken')
TokenLookup(nav, stored) == JsOr(nav, stored)

\* (mutation: only null / undefined count as "no token", '' passes)
TokenMissingNullOnly(token) == token = Null \/ token = Undefined
\* if (!token)
TokenMissing(token) == ~Truthy(token)

\* The useEffect body, with the synchronous head of loadBallot (setLoading(true)
\* and the getBallot call) when a token was found.
TokenEffect ==
  /\ page = "vote"
  /\ effectPending
  /\ effectPending' = FALSE
  /\ LET token == TokenLookup(navToken, lsBallotToken) IN
       IF TokenMissing(token)
       THEN /\ last' = Ran("useEffect", "noToken")
            /\ page' = "verify"
            /\ UNCHANGED << ballotToken, loading, getBallotCalls, ballotInFlight >>
       ELSE /\ last' = Ran("useEffect", "none")
            /\ ballotToken' = token
            /\ loading' = TRUE
            /\ getBallotCalls' = getBallotCalls + 1
            /\ ballotInFlight' = Append(ballotInFlight, token)
            /\ UNCHANGED page
  /\ UNCHANGED << navToken, lsBallotToken, locChanges, submitting, ballotData,
                  votes, submitCalls, submitInFlight >>

\* The router hands VotingPage a new location object (same route, new state,
\* search or hash): the effect's dependency changed, so it is scheduled again.
LocationChange ==
  /\ page = "vote"
  /\ locChanges < MaxLocationChanges
  /\ locChanges' = locChanges + 1
  /\ navToken' \in NavTokenValues
  /\ effectPending' = TRUE
  /\ last' = Ran("locationChange", "none")
  /\ UNCHANGED << lsBallotToken, page, ballotToken, loading, submitting,
                  ballotData, votes, getBallotCalls, ballotInFlight, submitCalls,
                  submitInFlight >>

\* (mutation: the effect has no dependency array and runs after every render)
RerenderRunsEffect ==
  /\ page = "vote"
  /\ effectPending' = TRUE
  /\ last' = Ran("render", "none")
  /\ UNCHANGED << navToken, lsBallotToken, page, locChanges, ballotToken,
                  loading, submitting, ballotData, votes, getBallotCalls,
                  ballotInFlight, submitCalls, submitInFlight >>

\* A re-render with the same location and navigate: the dependency array is
\* unchanged, so the effect is not scheduled.
Rerender ==
  /\ page = "vote"
  /\ last' = Ran("render", "none")
  /\ UNCHANGED << navToken, lsBallotToken, page, effectPending, locChanges,
                  ballotToken, loading, submitting, ballotData, votes,
                  getBallotCalls, ballotInFlight, submitCalls, submitInFlight >>

\* (mutation: the test for positions is dropped)
NoCandidatesWarningAnyBallot(resp) == OrEmpty(resp.candDef, resp.candidates) = {}
\* positions?.length > 0 && candidates?.length === 0
NoCandidatesWarning(resp) ==
  /\ resp.posDef /\ resp.positions # {}
  /\ resp.candDef /\ resp.candidates = {}

\* setBallotData({ positions: ... || [], candidates: ... || [] })
StoredBallot(resp) ==
  [loaded |-> TRUE, positions |-> OrEmpty(resp.posDef, resp.positions),
   candidates |-> OrEmpty(resp.candDef, resp.candidates)]

\* loadBallot after `await votesAPI.getBallot(token)` resolved.  The function's
\* end (past the catch block) is taken to clear `loading`.
LoadBallotResolve ==
  /\ \E i \in 1..Len(ballotInFlight) :
       ballotInFlight' = RemoveAt(ballotInFlight, i)
  /\ \E resp \in BallotResponses :
       /\ ballotData' = StoredBallot(resp)
       /\ last' = [handler |-> "loadBallot.then",
                   toast |-> IF NoCandidatesWarning(resp) THEN "noCandidates"
                                                          ELSE "none",
                   status |-> 0, resp |-> resp]
  /\ loading' = FALSE
  /\ UNCHANGED << navToken, lsBallotToken, page, effectPending, locChanges,
                  ballotToken, submitting, votes, getBallotCalls, submitCalls,
                  submitInFlight >>

\* (mutation: 400 is not treated as expiry)
IsTokenExpiry401Only(status) == status = 401
\* err.response?.status === 401 || err.response?.status === 400
IsTokenExpiry(status) == status = 401 \/ status = 400

\* loadBallot's catch block.
LoadBallotReject ==
  /\ \E i \in 1..Len(ballotInFlight) :
       ballotInFlight' = RemoveAt(ballotInFlight, i)
  /\ \E status \in ErrorStatuses :
       IF IsTokenExpiry(status)
       THEN /\ last' = [Ran("loadBallot.catch", "expired") EXCEPT !.status = status]
            /\ lsBallotToken' = Null
            /\ page' = "verify"
       ELSE /\ last' = [Ran("loadBallot.catch", "loadFailed") EXCEPT !.status = status]
            /\ UNCHANGED << lsBallotToken, page >>
  /\ loading' = FALSE
  /\ UNCHANGED << navToken, effectPending, locChanges, ballotToken, submitting,
                  ballotData, votes, getBallotCalls, submitCalls, submitInFlight >>

\* ------------------------------------------------------------------------
\* VotingPage: selection and submission.  The source at hand ends inside
\* loadBallot's catch block; these handlers follow the written contract of the
\* voting flow.
\* ------------------------------------------------------------------------
\* (mutation: the entry is added without replacing the position's earlier one)
SelectCandidateKeepsOld(prev, positionId, candidateId) ==
  prev \cup {<< positionId, candidateId >>}
\* { ...prev, [positionId]: candidateId } on the votes object
SelectCandidate(prev, positionId, candidateId) ==
  {e \in prev : e[1] # positionId} \cup {<< positionId, candidateId >>}

\* (mutation: every click submits the clicked selection at once)
VoteRequestsEager(positionId, candidateId) ==
  << [token |-> "", votes |-> {<< positionId, candidateId >>}] >>
\* what a click on a candidate sends to the server: nothing
VoteRequests(positionId, candidateId) == << >>

\* The user picks a candidate the ballot shows under one of its positions.
HandleVote ==
  /\ page = "vote"
  /\ ballotData.loaded
  /\ ~loading
  /\ \E c \in ballotData.candidates :
       /\ CandPos(c) \in ballotData.positions
       /\ votes' = SelectCandidate(votes, CandPos(c), c)
       /\ submitInFlight' = submitInFlight \o VoteRequests(CandPos(c), c)
       /\ submitCalls' = submitCalls + Len(VoteRequests(CandPos(c), c))
  /\ last' = Ran("handleVote", "none")
  /\ UNCHANGED << navToken, lsBallotToken, page, effectPending, locChanges,
                  ballotToken, loading, submitting, ballotData, getBallotCalls,
                  ballotInFlight >>

\* The user presses submit: the full selection set goes out, keyed by the token.
HandleSubmit ==
  /\ page = "vote"
  /\ ballotData.loaded
  /\ ~loading
  /\ ~submitting
  /\ submitCalls < MaxSubmits
  /\ submitting' = TRUE
  /\ submitCalls' = submitCalls + 1
  /\ submitInFlight' = Append(submitInFlight,
                              [token |-> ballotToken, votes |-> votes])
  /\ last' = Ran("handleSubmit", "none")
  /\ UNCHANGED << navToken, lsBallotToken, page, effectPending, locChanges,
                  ballotToken, loading, ballotData, votes, getBallotCalls,
                  ballotInFlight >>

\* The submission was accepted: the flow is over for this view.
SubmitResolve ==
  /\ submitInFlight # << >>
  /\ submitInFlight' = Tail(submitInFlight)
  /\ submitting' = FALSE
  /\ page' = "submitted"
  /\ last' = Ran("handleSubmit.then", "submitted")
  /\ UNCHANGED << navToken, lsBallotToken, effectPending, locChanges,
                  ballotToken, loading, ballotData, votes, getBallotCalls,
                  ballotInFlight, submitCalls >>

\* (mutation: every rejection is handled as token expiry)
SubmitRetryableNever(status) == FALSE
\* which rejections of a submission leave the page as it was, for a retry
SubmitRetryable(status) == ~IsTokenExpiry(status)

\* The submission was rejected: 401/400 is token expiry, anything else a
\* transient failure.
SubmitReject ==
  /\ submitInFlight # << >>
  /\ submitInFlight' = Tail(submitInFlight)
  /\ \E status \in ErrorStatuses :
       IF SubmitRetryable(status)
       THEN /\ last' = [Ran("handleSubmit.catch", "submitFailed")
                          EXCEPT !.status = status]
            /\ UNCHANGED << lsBallotToken, page >>
       ELSE /\ last' = [Ran("handleSubmit.catch", "expired")
                          EXCEPT !.status = status]
            /\ lsBallotToken' = Null
            /\ page' = "verify"
  /\ submitting' = FALSE
  /\ UNCHANGED << navToken, effectPending, locChanges, ballotToken, loading,
                  ballotData, votes, getBallotCalls, ballotInFlight, submitCalls >>

VotingNext ==
  \/ TokenEffect /\ UNCHANGED << loginVars, serverVars >>
  \/ LocationChange /\ UNCHANGED << loginVars, serverVars >>
  \/ Rerender /\ UNCHANGED << loginVars, serverVars >>
  \/ LoadBallotResolve /\ UNCHANGED << loginVars, serverVars >>
  \/ LoadBallotReject /\ UNCHANGED << loginVars, serverVars >>
  \/ HandleVote /\ UNCHANGED << loginVars, serverVars >>
  \/ HandleSubmit /\ UNCHANGED << loginVars, serverVars >>
  \/ SubmitResolve /\ UNCHANGED << loginVars, serverVars >>
  \/ SubmitReject /\ UNCHANGED << loginVars, serverVars >>

\* ------------------------------------------------------------------------
\* HomePage (unified login) and Login
\* ------------------------------------------------------------------------
\* Text is a sequence of characters, so that includes('@') and split('@')
\* are computed.
\* What is typed into the identifier / email field: nothing, a registration
\* number, and texts with an '@' in front, in the middle and at the end.
Identifiers ==
  { << >>, << "a" >>, << "@", "a" >>, << "a", "@", "a" >>, << "a", "@" >> }
\* what the password field can hold: undefined (never registered), empty, typed
Passwords == {Undefined, "", "short", "secret"}
\* HomePage looks only at whether a password is there
HomePasswords == {Undefined, "", "secret"}
PasswordLength(pw) ==
  CASE pw = "secret" -> 6
    [] pw = "short" -> 5
    [] OTHER -> 0

\* input.includes('@')
Includes(input, ch) == \E i \in 1..Len(input) : input[i] = ch

\* (mutation: only a leading '@' is looked for)
IsRegistrationNumberLeadingAt(input) == ~(Len(input) > 0 /\ input[1] = "@")
\* isRegistrationNumber: false with an '@', true otherwise
IsRegistrationNumber(input) == IF Includes(input, "@") THEN FALSE ELSE TRUE

\* email.split('@')[0]
BeforeAt(email) ==
  IF Includes(email, "@")
  THEN LET first == CHOOSE i \in 1..Len(email) :
                      email[i] = "@" /\ \A j \in 1..(i - 1) : email[j] # "@"
       IN SubSeq(email, 1, first - 1)
  ELSE email

\* unifiedLoginSchema: identifier min(1), password optional
UnifiedLoginValid(id, pw) == Len(id) >= 1

\* z.string().email(): an address is taken to be one '@' with text on both
\* sides.
IsEmail(email) ==
  /\ Cardinality({i \in 1..Len(email) : email[i] = "@"}) = 1
  /\ email[1] # "@" /\ email[Len(email)] # "@"

\* (mutation: the password rule is missing from the schema)
LoginValidNoPasswordRule(email, pw) == IsEmail(email)
\* loginSchema: email is an e-mail address, password min(6)
LoginValid(email, pw) ==
  /\ IsEmail(email)
  /\ pw # Undefined /\ PasswordLength(pw) >= 6

\* forgotPasswordSchema: email is an e-mail address
ForgotValid(email) == IsEmail(email)

Roles == {"ADMIN", "OFFICER", "CANDIDATE", "VOTER", Undefined}
Statuses == {"ACTIVE", "INACTIVE"}
ResponseTokens == {"s1", "s2"}
\* a resolved authAPI.login: { token, user: { role, status, name, email } }
\* (the session "s1" is one of a user without a name, "s2" one of a user with)
LoginResponses(email) ==
  { [token |-> t,
     user |-> [role |-> r, status |-> st,
               name |-> IF t = "s1" THEN << >> ELSE << "a" >>, email |-> email]] :
      t \in ResponseTokens, r \in Roles, st \in Statuses }
NoUser == [role |-> Undefined, status |-> "ACTIVE", name |-> << >>, email |-> << >>]
NoLoginResponse == [token |-> "", user |-> NoUser]
NoWelcome == [name |-> << >>, emoji |-> ""]

\* a storage entry: absent, or set to a value
Absent(blank) == [set |-> FALSE, value |-> blank]
Item(value) == [set |-> TRUE, value |-> value]
\* (mutation: the object is stored without JSON.stringify, as "[object Object]")
JsonItemNotStringified(value) == Item(NoUser)
\* setItem(key, JSON.stringify(value)): the entry holds the text of the value
JsonItem(value) == Item(value)

\* an earlier session left in localStorage
OldUser ==
  [role |-> "CANDIDATE", status |-> "ACTIVE", name |-> << "a" >>,
   email |-> << "a", "@", "a" >>]
OldWelcome == [name |-> << "a" >>, emoji |-> "target"]

\* err.response?.data?.error of a rejected request
ServerErrors == {Undefined, "Invalid credentials", "Account is inactive",
                 "Account deactivated"}
\* err.code and err.message of a rejected request
ErrorCodes == {Undefined, "ERR_NETWORK", "ECONNREFUSED"}
ErrorMessages == {"", "Request failed"}
\* a rejected authAPI.login as Login.onSubmit's catch reads it: a network
\* failure has a code and no response, an answer of the server has a status
\* and may carry an error text
LoginRejections ==
  { r \in [code : ErrorCodes, status : ErrorStatuses, serverError : ServerErrors,
           message : ErrorMessages] :
      /\ r.code # Undefined => r.status = 0
      /\ r.status = 0 => r.serverError = Undefined }
\* errorMessage.includes('inactive') || errorMessage.includes('deactivated')
MentionsDeactivation(msg) == msg \in {"Account is inactive", "Account deactivated"}
DeactivatedMessage ==
  "Your account has been deactivated. Please contact the administrator for assistance."

RanLogin(handler, id, pw) ==
  [handler |-> handler, id |-> id, pw |-> pw, nav |-> "none",
   resp |-> NoLoginResponse, mount |-> mountId]

LoginInit ==
  /\ route \in {"/", "/login", "/forgot-password"}
  /\ mountId = 0
  /\ navCount = 0
  /\ error = ""
  /\ formLoading = FALSE
  /\ \/ /\ lsToken = Absent("")
        /\ lsUser = Absent(NoUser)
        /\ lsWelcome = Absent(NoWelcome)
     \/ /\ lsToken = Item("old")
        /\ lsUser = JsonItem(OldUser)
        /\ lsWelcome = JsonItem(OldWelcome)
  /\ ssPendingRegNo = Absent(<< >>)
  /\ ssOtpSent = Absent("")
  /\ loginCalls = 0
  /\ otpCalls = 0
  /\ loginInFlight = << >>
  /\ otpInFlight = << >>
  /\ attempts = 0
  /\ lastLogin = RanLogin("none", << >>, Undefined)
  /\ viewState = "form"
  /\ forgotCalls = 0
  /\ forgotInFlight = << >>

\* (mutation: setLoading(false) is missing after the await)
SetFormStateLoadingKept(mount, err, ld) ==
  IF mount = mountId
  THEN error' = err /\ UNCHANGED formLoading
  ELSE UNCHANGED << error, formLoading >>
\* setError / setLoading of the component instance that sent the request: a
\* state update of an instance that is no longer mounted changes nothing.
SetFormState(mount, err, ld) ==
  IF mount = mountId
  THEN error' = err /\ formLoading' = ld
  ELSE UNCHANGED << error, formLoading >>

\* (mutation: the submit button is not disabled while loading)
SubmitEnabledAlways == TRUE
\* <Button type="submit" disabled={loading}>: a submit event needs the button
SubmitEnabled == ~formLoading

\* The user opens one of the pages: a fresh component instance.
Visit ==
  /\ mountId < MaxVisits
  /\ mountId' = mountId + 1
  /\ route' \in {"/", "/login", "/forgot-password"}
  /\ error' = ""
  /\ formLoading' = FALSE
  /\ viewState' = "form"
  /\ lastLogin' = [RanLogin("visit", << >>, Undefined) EXCEPT !.mount = mountId + 1]
  /\ UNCHANGED << forgotCalls, forgotInFlight, navCount, lsToken, lsUser, lsWelcome, ssPendingRegNo,
                  ssOtpSent, loginCalls, otpCalls, loginInFlight, otpInFlight,
                  attempts >>

\* (mutation: only a password that was never entered counts as missing)
PasswordMissingUndefinedOnly(pw) == pw = Undefined
\* !data.password
PasswordMissing(pw) == ~Truthy(pw)

\* HomePage.onSubmit up to its await: the voter flow requests an OTP, the
\* email flow needs a password and then calls authAPI.login.
HomeSubmit ==
  /\ route = "/"
  /\ SubmitEnabled
  /\ attempts < MaxLoginAttempts
  /\ attempts' = attempts + 1
  /\ \E id \in Identifiers, pw \in HomePasswords :
       /\ UnifiedLoginValid(id, pw)
       /\ lastLogin' = RanLogin("HomePage.onSubmit", id, pw)
       /\ IF IsRegistrationNumber(id)
          THEN /\ error' = ""
               /\ formLoading' = TRUE
               /\ otpCalls' = otpCalls + 1
               /\ otpInFlight' = Append(otpInFlight, [mount |-> mountId, regNo |-> id])
               /\ UNCHANGED << loginCalls, loginInFlight >>
          ELSE IF PasswordMissing(pw)
          THEN /\ error' = "Password is required for email login"
               /\ formLoading' = FALSE
               /\ UNCHANGED << loginCalls, loginInFlight, otpCalls, otpInFlight >>
          ELSE /\ error' = ""
               /\ formLoading' = TRUE
               /\ loginCalls' = loginCalls + 1
               /\ loginInFlight' = Append(loginInFlight,
                    [form |-> "home", mount |-> mountId, email |-> id, password |-> pw])
               /\ UNCHANGED << otpCalls, otpInFlight >>
  /\ UNCHANGED << route, mountId, navCount, lsToken, lsUser, lsWelcome,
                  ssPendingRegNo, ssOtpSent, forgotVars >>

\* requestOTP resolved: remember the registration number, go to /verify.
HomeOtpResolve ==
  \E i \in 1..Len(otpInFlight) :
    LET req == otpInFlight[i] IN
      /\ otpInFlight' = RemoveAt(otpInFlight, i)
      /\ ssPendingRegNo' = Item(req.regNo)
      /\ ssOtpSent' = Item("true")
      /\ route' = "/verify"
      /\ navCount' = navCount + 1
      /\ SetFormState(req.mount, error, FALSE)
      /\ lastLogin' = [RanLogin("HomePage.requestOTP.then", req.regNo, Undefined)
                         EXCEPT !.nav = "/verify", !.mount = req.mount]
      /\ UNCHANGED << mountId, lsToken, lsUser, lsWelcome, loginCalls, otpCalls,
                      loginInFlight, attempts, forgotVars >>

\* (mutation: the two sessionStorage writes stand before the request, so they
\* are there when it fails)
HomeOtpRejectAfterEarlyWrites ==
  \E i \in 1..Len(otpInFlight), serverError \in ServerErrors :
    LET req == otpInFlight[i] IN
      /\ otpInFlight' = RemoveAt(otpInFlight, i)
      /\ ssPendingRegNo' = Item(req.regNo)
      /\ ssOtpSent' = Item("true")
      /\ SetFormState(req.mount,
                      JsOr(serverError, "Failed to send OTP. Please try again."),
                      FALSE)
      /\ lastLogin' = [RanLogin("HomePage.requestOTP.catch", req.regNo, Undefined)
                         EXCEPT !.mount = req.mount]
      /\ UNCHANGED << route, mountId, navCount, lsToken, lsUser, lsWelcome,
                      loginCalls, otpCalls, loginInFlight, attempts, forgotVars >>
\* requestOTP rejected: the inner catch.
HomeOtpReject ==
  \E i \in 1..Len(otpInFlight), serverError \in ServerErrors :
    LET req == otpInFlight[i] IN
      /\ otpInFlight' = RemoveAt(otpInFlight, i)
      /\ SetFormState(req.mount,
                      JsOr(serverError, "Failed to send OTP. Please try again."),
                      FALSE)
      /\ lastLogin' = [RanLogin("HomePage.requestOTP.catch", req.regNo, Undefined)
                         EXCEPT !.mount = req.mount]
      /\ UNCHANGED << route, mountId, navCount, lsToken, lsUser, lsWelcome,
                      ssPendingRegNo, ssOtpSent, loginCalls, otpCalls,
                      loginInFlight, attempts, forgotVars >>

\* response.user.name || response.user.email.split('@')[0], and the emoji
WelcomeMessage(user) ==
  [name |-> IF user.name # << >> THEN user.name ELSE BeforeAt(user.email),
   emoji |-> IF user.role = "ADMIN" THEN "crown"
             ELSE IF user.role = "OFFICER" THEN "clipboard" ELSE "target"]

\* (mutation: the OFFICER case is missing from the switch)
HomeRoleTargetNoOfficer(role) ==
  CASE role = "ADMIN" -> "/admin/dashboard"
    [] role = "CANDIDATE" -> "/candidate/dashboard"
    [] OTHER -> "/"
\* HomePage.onSubmit: switch (response.user.role)
HomeRoleTarget(role) ==
  CASE role = "ADMIN" -> "/admin/dashboard"
    [] role = "OFFICER" -> "/officer/dashboard"
    [] role = "CANDIDATE" -> "/candidate/dashboard"
    [] OTHER -> "/"

\* Login.onSubmit: switch (role)
LoginRoleTarget(role) ==
  CASE role = "ADMIN" -> "/admin/dashboard"
    [] role = "OFFICER" -> "/officer/dashboard"
    [] role = "CANDIDATE" -> "/candidate/dashboard"
    [] OTHER -> "/"

\* (mutation: the status is compared with a value the server does not send)
IsDeactivatedOfficerWrongStatus(user) ==
  user.role = "OFFICER" /\ user.status = "DEACTIVATED"
\* response.user.role === 'OFFICER' && response.user.status === 'INACTIVE'
IsDeactivatedOfficer(user) == user.role = "OFFICER" /\ user.status = "INACTIVE"

\* HomePage.onSubmit after authAPI.login resolved.
HomeLoginResolve ==
  \E i \in 1..Len(loginInFlight) :
    LET req == loginInFlight[i] IN
      /\ req.form = "home"
      /\ loginInFlight' = RemoveAt(loginInFlight, i)
      /\ \E resp \in LoginResponses(req.email) :
           IF IsDeactivatedOfficer(resp.user)
           THEN /\ SetFormState(req.mount, DeactivatedMessage, FALSE)
                /\ lsToken' = Absent("")
                /\ lsUser' = Absent(NoUser)
                /\ lastLogin' = [RanLogin("HomePage.login.then", req.email, req.password)
                                   EXCEPT !.resp = resp, !.mount = req.mount]
                /\ UNCHANGED << lsWelcome, route, navCount >>
           ELSE /\ lsToken' = Item(resp.token)
                /\ lsUser' = JsonItem(resp.user)
                /\ lsWelcome' = JsonItem(WelcomeMessage(resp.user))
                /\ route' = HomeRoleTarget(resp.user.role)
                /\ navCount' = navCount + 1
                /\ SetFormState(req.mount, error, FALSE)
                /\ lastLogin' = [RanLogin("HomePage.login.then", req.email, req.password)
                                   EXCEPT !.resp = resp, !.mount = req.mount,
                                          !.nav = HomeRoleTarget(resp.user.role)]
      /\ UNCHANGED << mountId, ssPendingRegNo, ssOtpSent, loginCalls, otpCalls,
                      otpInFlight, attempts, forgotVars >>

\* HomePage.onSubmit's outer catch.
HomeLoginReject ==
  \E i \in 1..Len(loginInFlight), serverError \in ServerErrors :
    LET req == loginInFlight[i]
        errorMessage == JsOr(serverError, "Login failed. Please try again.")
    IN
      /\ req.form = "home"
      /\ loginInFlight' = RemoveAt(loginInFlight, i)
      /\ SetFormState(req.mount,
                      IF MentionsDeactivation(errorMessage) THEN DeactivatedMessage
                                                            ELSE errorMessage,
                      FALSE)
      /\ lastLogin' = [RanLogin("HomePage.login.catch", req.email, req.password)
                         EXCEPT !.mount = req.mount]
      /\ UNCHANGED << route, mountId, navCount, lsToken, lsUser, lsWelcome,
                      ssPendingRegNo, ssOtpSent, loginCalls, otpCalls,
                      otpInFlight, attempts, forgotVars >>

\* The Login form is submitted: handleSubmit validates the fields and calls
\* onSubmit with valid data only; onSubmit runs up to its await.
LoginSubmit ==
  /\ route = "/login"
  /\ SubmitEnabled
  /\ attempts < MaxLoginAttempts
  /\ attempts' = attempts + 1
  /\ \E email \in Identifiers, pw \in Passwords \ {Undefined} :
       IF LoginValid(email, pw)
       THEN /\ lastLogin' = RanLogin("Login.onSubmit", email, pw)
            /\ loginInFlight' = Append(loginInFlight,
                 [form |-> "login", mount |-> mountId, email |-> email,
                  password |-> pw])
            /\ error' = ""
            /\ formLoading' = TRUE
            /\ loginCalls' = loginCalls + 1
       ELSE /\ lastLogin' = RanLogin("Login.handleSubmit", email, pw)
            /\ UNCHANGED << loginInFlight, error, formLoading, loginCalls >>
  /\ UNCHANGED << route, mountId, navCount, lsToken, lsUser, lsWelcome,
                  ssPendingRegNo, ssOtpSent, otpCalls, otpInFlight, forgotVars >>

\* Login.onSubmit after authAPI.login resolved.
LoginResolve ==
  \E i \in 1..Len(loginInFlight) :
    LET req == loginInFlight[i] IN
      /\ req.form = "login"
      /\ loginInFlight' = RemoveAt(loginInFlight, i)
      /\ \E resp \in LoginResponses(req.email) :
           /\ lsToken' = Item(resp.token)
           /\ lsUser' = JsonItem(resp.user)
           /\ lsWelcome' = JsonItem(WelcomeMessage(resp.user))
           /\ route' = LoginRoleTarget(resp.user.role)
           /\ navCount' = navCount + 1
           /\ lastLogin' = [RanLogin("Login.login.then", req.email, req.password)
                              EXCEPT !.resp = resp, !.mount = req.mount,
                                     !.nav = LoginRoleTarget(resp.user.role)]
      /\ SetFormState(req.mount, error, FALSE)
      /\ UNCHANGED << mountId, ssPendingRegNo, ssOtpSent, loginCalls, otpCalls,
                      otpInFlight, attempts, forgotVars >>

\* (mutation: the chain ends with err.message, without the default text)
LoginErrorMessageNoDefault(code, status, serverError, message) ==
  IF code = "ECONNREFUSED" \/ code = "ERR_NETWORK"
  THEN "Cannot connect to server. Please check if the backend is running."
  ELSE IF status = 401 THEN JsOr(serverError, "Invalid email or password.")
  ELSE IF status = 500 THEN "Server error. Please try again later."
  ELSE IF Truthy(serverError) THEN serverError
  ELSE message
\* Login.onSubmit's catch: the message chosen for the error
LoginErrorMessage(code, status, serverError, message) ==
  IF code = "ECONNREFUSED" \/ code = "ERR_NETWORK"
  THEN "Cannot connect to server. Please check if the backend is running."
  ELSE IF status = 401 THEN JsOr(serverError, "Invalid email or password.")
  ELSE IF status = 500 THEN "Server error. Please try again later."
  ELSE IF Truthy(serverError) THEN serverError
  ELSE IF Truthy(message) THEN message
  ELSE "Login failed. Please try again."

LoginReject ==
  \E i \in 1..Len(loginInFlight), r \in LoginRejections :
    LET req == loginInFlight[i] IN
      /\ req.form = "login"
      /\ loginInFlight' = RemoveAt(loginInFlight, i)
      /\ SetFormState(req.mount,
                      LoginErrorMessage(r.code, r.status, r.serverError, r.message),
                      FALSE)
      /\ lastLogin' = [RanLogin("Login.login.catch", req.email, req.password)
                         EXCEPT !.mount = req.mount]
      /\ UNCHANGED << route, mountId, navCount, lsToken, lsUser, lsWelcome,
                      ssPendingRegNo, ssOtpSent, loginCalls, otpCalls,
                      otpInFlight, attempts, forgotVars >>

\* The forgot-password form is submitted: handleSubmit validates the email
\* and calls handleSendResetCode with valid data only; the handler runs up to
\* its await.
ForgotSubmit ==
  /\ route = "/forgot-password"
  /\ viewState = "form"
  /\ SubmitEnabled
  /\ attempts < MaxLoginAttempts
  /\ attempts' = attempts + 1
  /\ \E email \in Identifiers :
       IF ForgotValid(email)
       THEN /\ lastLogin' = RanLogin("ForgotPasswordPage.handleSendResetCode",
                                     email, Undefined)
            /\ forgotInFlight' = Append(forgotInFlight,
                 [mount |-> mountId, email |-> email])
            /\ error' = ""
            /\ formLoading' = TRUE
            /\ forgotCalls' = forgotCalls + 1
       ELSE /\ lastLogin' = RanLogin("ForgotPasswordPage.handleSubmit", email,
                                     Undefined)
            /\ UNCHANGED << forgotInFlight, error, formLoading, forgotCalls >>
  /\ UNCHANGED << route, mountId, navCount, lsToken, lsUser, lsWelcome,
                  ssPendingRegNo, ssOtpSent, loginCalls, otpCalls, loginInFlight,
                  otpInFlight, viewState >>

\* handleSendResetCode after authAPI.forgotPassword resolved.
ForgotResolve ==
  \E i \in 1..Len(forgotInFlight) :
    LET req == forgotInFlight[i] IN
      /\ forgotInFlight' = RemoveAt(forgotInFlight, i)
      /\ viewState' = IF req.mount = mountId THEN "confirmation" ELSE viewState
      /\ SetFormState(req.mount, error, FALSE)
      /\ lastLogin' = [RanLogin("ForgotPasswordPage.forgotPassword.then",
                                 req.email, Undefined)
                         EXCEPT !.mount = req.mount]
      /\ UNCHANGED << route, mountId, navCount, lsToken, lsUser, lsWelcome,
                      ssPendingRegNo, ssOtpSent, loginCalls, otpCalls,
                      loginInFlight, otpInFlight, attempts, forgotCalls >>

\* handleSendResetCode's catch.
ForgotReject ==
  \E i \in 1..Len(forgotInFlight), serverError \in ServerErrors :
    LET req == forgotInFlight[i] IN
      /\ forgotInFlight' = RemoveAt(forgotInFlight, i)
      /\ viewState' = IF req.mount = mountId THEN "form" ELSE viewState
      /\ SetFormState(req.mount,
                      JsOr(serverError,
                           "Failed to send password reset code. Please try again."),
                      FALSE)
      /\ lastLogin' = [RanLogin("ForgotPasswordPage.forgotPassword.catch",
                                 req.email, Undefined)
                         EXCEPT !.mount = req.mount]
      /\ UNCHANGED << route, mountId, navCount, lsToken, lsUser, lsWelcome,
                      ssPendingRegNo, ssOtpSent, loginCalls, otpCalls,
                      loginInFlight, otpInFlight, attempts, forgotCalls >>

\* handleResendCode, offered by the confirmation view: back to the form.
HandleResendCode ==
  /\ route = "/forgot-password"
  /\ viewState = "confirmation"
  /\ viewState' = "form"
  /\ error' = ""
  /\ lastLogin' = RanLogin("ForgotPasswordPage.handleResendCode", << >>, Undefined)
  /\ UNCHANGED << route, mountId, navCount, formLoading, lsToken, lsUser,
                  lsWelcome, ssPendingRegNo, ssOtpSent, loginCalls, otpCalls,
                  loginInFlight, otpInFlight, attempts, forgotCalls,
                  forgotInFlight >>

\* handleContinueToOTP, offered by the confirmation view: on to the reset page.
HandleContinueToOTP ==
  /\ route = "/forgot-password"
  /\ viewState = "confirmation"
  /\ route' = "/reset-password"
  /\ navCount' = navCount + 1
  /\ lastLogin' = [RanLogin("ForgotPasswordPage.handleContinueToOTP", << >>,
                             Undefined)
                     EXCEPT !.nav = "/reset-password"]
  /\ UNCHANGED << mountId, error, formLoading, lsToken, lsUser, lsWelcome,
                  ssPendingRegNo, ssOtpSent, loginCalls, otpCalls, loginInFlight,
                  otpInFlight, attempts, forgotVars >>

LoginNext ==
  \/ Visit /\ UNCHANGED << votingVars, serverVars >>
  \/ HomeSubmit /\ UNCHANGED << votingVars, serverVars >>
  \/ HomeOtpResolve /\ UNCHANGED << votingVars, serverVars >>
  \/ HomeOtpReject /\ UNCHANGED << votingVars, serverVars >>
  \/ HomeLoginResolve /\ UNCHANGED << votingVars, serverVars >>
  \/ HomeLoginReject /\ UNCHANGED << votingVars, serverVars >>
  \/ LoginSubmit /\ UNCHANGED << votingVars, serverVars >>
  \/ LoginResolve /\ UNCHANGED << votingVars, serverVars >>
  \/ LoginReject /\ UNCHANGED << votingVars, serverVars >>
  \/ ForgotSubmit /\ UNCHANGED << votingVars, serverVars >>
  \/ ForgotResolve /\ UNCHANGED << votingVars, serverVars >>
  \/ ForgotReject /\ UNCHANGED << votingVars, serverVars >>
  \/ HandleResendCode /\ UNCHANGED << votingVars, serverVars >>
  \/ HandleContinueToOTP /\ UNCHANGED << votingVars, serverVars >>

\* ------------------------------------------------------------------------
\* server.cjs: express.static on dist, then the catch-all middleware
\* ------------------------------------------------------------------------
\* Paths are sequences of characters, so that endsWith, startsWith and the
\* regular expression are computed.
\* (mutation: the path is compared with === instead of startsWith)
StartsWithWholeText(text, prefix) == text = prefix
StartsWith(text, prefix) ==
  Len(text) >= Len(prefix) /\ SubSeq(text, 1, Len(prefix)) = prefix
EndsWith(text, suffix) ==
  /\ Len(text) >= Len(suffix)
  /\ SubSeq(text, Len(text) - Len(suffix) + 1, Len(text)) = suffix

RootPath == << "/" >>
IndexHtml == << "/", "i", "n", "d", "e", "x", ".", "h", "t", "m", "l" >>
AppJs == << "/", "a", ".", "j", "s" >>
AppCss == << "/", "a", ".", "c", "s", "s" >>
LogoPng == << "/", "a", ".", "p", "n", "g" >>
ApiJs == << "/", "a", "p", "i", ".", "j", "s" >>
AboutPath == << "/", "a", "b", "o", "u", "t" >>
ApiPath == << "/", "a", "p", "i" >>
ApiUsersPath == << "/", "a", "p", "i", "/", "u" >>
ApixPath == << "/", "a", "p", "i", "x" >>

\* what a build may put into dist next to index.html
OptionalFiles == {AppJs, AppCss, LogoPng, ApiJs}
RequestPaths ==
  {RootPath, IndexHtml, AppJs, AppCss, LogoPng, ApiJs, AboutPath, ApiPath,
   ApiUsersPath, ApixPath}
Methods == {"GET", "HEAD", "POST"}
Requests == [method : Methods, path : RequestPaths]
NoRequest == [method |-> "", path |-> << >>]

HtmlCacheControl == "public, max-age=0, must-revalidate"
AssetCacheControl == "public, max-age=31536000, immutable"
\* express.static's maxAge: '1y', used when setHeaders left the header unset
StaticDefaultCacheControl == "public, max-age=31536000"
\* res.sendFile without options: maxAge 0
SendFileCacheControl == "public, max-age=0"
NoHeader == ""

NoResponseSent ==
  [status |-> 0, file |-> << >>, json |-> "", cacheControl |-> NoHeader,
   by |-> "none"]

\* (mutation: the rule for .js and .css is missing)
SetHeadersNoAssetRule(filePath) ==
  IF EndsWith(filePath, << ".", "h", "t", "m", "l" >>) THEN HtmlCacheControl
  ELSE NoHeader
\* setHeaders: the Cache-Control it leaves on the response.  The two ifs run
\* one after the other, so the second overwrites the first.
SetHeaders(filePath) ==
  LET afterHtml == IF EndsWith(filePath, << ".", "h", "t", "m", "l" >>)
                   THEN HtmlCacheControl ELSE NoHeader
  IN IF \/ EndsWith(filePath, << ".", "j", "s" >>)
        \/ EndsWith(filePath, << ".", "c", "s", "s" >>)
     THEN AssetCacheControl
     ELSE afterHtml

\* the file express.static looks for: the directory index for '/'
StaticFile(path) == IF path = RootPath THEN IndexHtml ELSE path
Exists(file) == file = IndexHtml \/ file \in dist

ServerInit ==
  /\ dist \in SUBSET OptionalFiles
  /\ request = NoRequest
  /\ stage = "idle"
  /\ response = NoResponseSent

\* A request arrives and enters the middleware chain.
Receive ==
  /\ stage \in {"idle", "done"}
  /\ request' \in Requests
  /\ stage' = "static"
  /\ response' = NoResponseSent
  /\ UNCHANGED dist

\* express.static: answers GET and HEAD requests for a file that exists, and
\* passes every other request on.
ServeStatic ==
  /\ stage = "static"
  /\ IF request.method \in {"GET", "HEAD"} /\ Exists(StaticFile(request.path))
     THEN LET file == StaticFile(request.path)
              header == SetHeaders(file)
          IN /\ response' =
                  [status |-> 200, file |-> file, json |-> "",
                   cacheControl |-> IF header = NoHeader
                                    THEN StaticDefaultCacheControl ELSE header,
                   by |-> "static"]
             /\ stage' = "done"
     ELSE /\ stage' = "fallback"
          /\ UNCHANGED response
  /\ UNCHANGED << dist, request >>

\* The catch-all middleware: 404 JSON under /api, index.html otherwise.
Fallback ==
  /\ stage = "fallback"
  /\ IF StartsWith(request.path, << "/", "a", "p", "i" >>)
     THEN response' =
            [status |-> 404, file |-> << >>, json |-> "API route not found",
             cacheControl |-> NoHeader, by |-> "fallback"]
     ELSE response' =
            [status |-> 200, file |-> IndexHtml, json |-> "",
             cacheControl |-> SendFileCacheControl, by |-> "fallback"]
  /\ stage' = "done"
  /\ UNCHANGED << dist, request >>

ServerNext ==
  \/ Receive /\ UNCHANGED << votingVars, loginVars >>
  \/ ServeStatic /\ UNCHANGED << votingVars, loginVars >>
  \/ Fallback /\ UNCHANGED << votingVars, loginVars >>

\* ------------------------------------------------------------------------
\* Specifications: each part runs with the other ones at rest
\* ------------------------------------------------------------------------
VotingAtRest == VotingInit /\ navToken = Undefined /\ lsBallotToken = Null
LoginAtRest == LoginInit /\ route = "/" /\ ~lsToken.set
ServerAtRest == ServerInit /\ dist = {}

VotingSpecInit == VotingInit /\ LoginAtRest /\ ServerAtRest
LoginSpecInit == LoginInit /\ VotingAtRest /\ ServerAtRest
ServerSpecInit == ServerInit /\ VotingAtRest /\ LoginAtRest

VotingSpec == VotingSpecInit /\ [][VotingNext]_vars
LoginSpec == LoginSpecInit /\ [][LoginNext]_vars
ServerSpec == ServerSpecInit /\ [][ServerNext]_vars

\* The forms of the application: one page is on screen at a time, so a run
\* follows the login pages or the voting page.
\* (the voting page is opened with its token in navigation state)
FormsSpecInit ==
  \/ LoginSpecInit
  \/ VotingSpecInit /\ navToken \in Tokens /\ lsBallotToken = Null
FormsNext ==
  \/ VotingAtRest /\ Visit /\ UNCHANGED << votingVars, serverVars >>
  \/ VotingAtRest /\ HomeSubmit /\ UNCHANGED << votingVars, serverVars >>
  \/ VotingAtRest /\ HomeOtpResolve /\ UNCHANGED << votingVars, serverVars >>
  \/ VotingAtRest /\ HomeOtpReject /\ UNCHANGED << votingVars, serverVars >>
  \/ VotingAtRest /\ HomeLoginResolve /\ UNCHANGED << votingVars, serverVars >>
  \/ VotingAtRest /\ HomeLoginReject /\ UNCHANGED << votingVars, serverVars >>
  \/ VotingAtRest /\ LoginSubmit /\ UNCHANGED << votingVars, serverVars >>
  \/ VotingAtRest /\ LoginResolve /\ UNCHANGED << votingVars, serverVars >>
  \/ VotingAtRest /\ LoginReject /\ UNCHANGED << votingVars, serverVars >>
  \/ VotingAtRest /\ ForgotSubmit /\ UNCHANGED << votingVars, serverVars >>
  \/ VotingAtRest /\ ForgotResolve /\ UNCHANGED << votingVars, serverVars >>
  \/ VotingAtRest /\ ForgotReject /\ UNCHANGED << votingVars, serverVars >>
  \/ VotingAtRest /\ HandleResendCode /\ UNCHANGED << votingVars, serverVars >>
  \/ VotingAtRest /\ HandleContinueToOTP /\ UNCHANGED << votingVars, serverVars >>
  \/ LoginAtRest /\ TokenEffect /\ UNCHANGED << loginVars, serverVars >>
  \/ LoginAtRest /\ LocationChange /\ UNCHANGED << loginVars, serverVars >>
  \/ LoginAtRest /\ Rerender /\ UNCHANGED << loginVars, serverVars >>
  \/ LoginAtRest /\ LoadBallotResolve /\ UNCHANGED << loginVars, serverVars >>
  \/ LoginAtRest /\ LoadBallotReject /\ UNCHANGED << loginVars, serverVars >>
  \/ LoginAtRest /\ HandleVote /\ UNCHANGED << loginVars, serverVars >>
  \/ LoginAtRest /\ HandleSubmit /\ UNCHANGED << loginVars, serverVars >>
  \/ LoginAtRest /\ SubmitResolve /\ UNCHANGED << loginVars, serverVars >>
  \/ LoginAtRest /\ SubmitReject /\ UNCHANGED << loginVars, serverVars >>
FormsSpec == FormsSpecInit /\ [][FormsNext]_vars

\* ------------------------------------------------------------------------
\* Steps, as seen from a pair of states
\* ------------------------------------------------------------------------
EffectStep == effectPending /\ ~effectPending'
BallotSettledStep == Len(ballotInFlight') < Len(ballotInFlight)
SubmitSettledStep == Len(submitInFlight') < Len(submitInFlight)

\* ------------------------------------------------------------------------
\* Properties of the voting flow
\* ------------------------------------------------------------------------

\* C1: when the token effect runs, the token it uses is the one in navigation
\* state if that is present and non-empty, and the stored one only otherwise;
\* if the chosen token is a token at all, getBallot is called with exactly it
\* (and it becomes the ballotToken state), and otherwise no call is made.
C1_TokenPrecedence ==
  [][ EffectStep =>
        LET chosen == IF navToken \in Tokens THEN navToken ELSE lsBallotToken IN
          IF chosen \in Tokens
          THEN /\ getBallotCalls' = getBallotCalls + 1
               /\ ballotInFlight' = Append(ballotInFlight, chosen)
               /\ ballotToken' = chosen
          ELSE /\ getBallotCalls' = getBallotCalls
               /\ ballotInFlight' = ballotInFlight ]_vars

\* both sources hold a token, they differ, and the request carries the one from
\* navigation state
C1_Witness ==
  /\ navToken \in Tokens /\ lsBallotToken \in Tokens
  /\ navToken # lsBallotToken
  /\ last.handler = "useEffect"
  /\ getBallotCalls = 1
  /\ ballotInFlight = << navToken >>

\* C2: an effect run that finds a token in neither source shows the error
\* notification and navigates to /verify without calling getBallot or touching
\* the ballotToken state; once the page is left no getBallot call follows, so a
\* page load without a token ends with no call made and ballotToken = ''.
C2_NoTokenRedirect ==
  [][ /\ (EffectStep /\ navToken \notin Tokens /\ lsBallotToken \notin Tokens)
         => /\ last'.toast = "noToken"
            /\ page' = "verify"
            /\ getBallotCalls' = getBallotCalls
            /\ ballotInFlight' = ballotInFlight
            /\ ballotToken' = ballotToken
      /\ page # "vote"
         => /\ getBallotCalls' = getBallotCalls
            /\ ballotToken' = ballotToken
            /\ page' # "vote"
      /\ (last'.toast = "noToken" /\ locChanges' = 0)
         => /\ getBallotCalls' = 0
            /\ ballotInFlight' = << >>
            /\ ballotToken' = "" ]_vars

\* the page was loaded without a token and the user was sent to /verify
C2_Witness ==
  /\ last.handler = "useEffect" /\ last.toast = "noToken"
  /\ locChanges = 0
  /\ page = "verify"
  /\ navToken = "" /\ lsBallotToken = Null

\* C3: when the ballot fetch or the vote submission is rejected with status 401
\* or 400, the stored 'ballotToken' is removed and the user is navigated to
\* /verify.
C3_ExpiryDiscardsToken ==
  [][ ( /\ BallotSettledStep \/ SubmitSettledStep
        /\ last'.handler \in {"loadBallot.catch", "handleSubmit.catch"}
        /\ last'.status \in {401, 400} )
      => /\ lsBallotToken' = Null
         /\ page' = "verify"
         /\ last'.toast = "expired" ]_vars

\* the ballot fetch came back 401 and the user is on /verify without a stored
\* token
C3_Witness ==
  /\ last.handler = "loadBallot.catch" /\ last.status = 401
  /\ page = "verify"
  /\ lsBallotToken = Null
  /\ ballotToken \in Tokens

\* C4: when a submission is rejected with anything but 401/400, the votes map,
\* the stored token and the page are as before, a failure notification is
\* shown, and the submit control is free again.
C4_FailedSubmitKeepsSelections ==
  [][ ( /\ SubmitSettledStep
        /\ last'.handler = "handleSubmit.catch"
        /\ last'.status \notin {401, 400} )
      => /\ votes' = votes
         /\ lsBallotToken' = lsBallotToken
         /\ page' = page
         /\ ballotData' = ballotData
         /\ ~submitting'
         /\ last'.toast = "submitFailed" ]_vars

\* a second submission, carrying the selections made before the first one
\* failed, is on its way
C4_Witness ==
  /\ submitCalls = 2
  /\ page = "vote"
  /\ last.handler = "handleSubmit"
  /\ votes # {}
  /\ submitInFlight = << [token |-> ballotToken, votes |-> votes] >>

\* C5: the votes state never holds two candidates for one position.
C5_OneCandidatePerPosition ==
  \A e1 \in votes : \A e2 \in votes : e1[1] = e2[1] => e1 = e2

\* both positions have a selection
C5_Witness ==
  /\ last.handler = "handleVote"
  /\ {e[1] : e \in votes} = Positions

\* C6: a candidate selection sends nothing to the server, and a submission
\* request is sent only by the submit handler.
C6_NoRequestUntilSubmit ==
  [][ /\ last'.handler = "handleVote"
         => /\ submitCalls' = submitCalls
            /\ submitInFlight' = submitInFlight
            /\ getBallotCalls' = getBallotCalls
            /\ ballotInFlight' = ballotInFlight
      /\ (submitCalls' # submitCalls \/ Len(submitInFlight') > Len(submitInFlight))
         => last'.handler = "handleSubmit" ]_vars

\* selections were made and changed, and nothing was sent
C6_Witness ==
  /\ last.handler = "handleVote"
  /\ Cardinality(votes) = 2
  /\ submitCalls = 0 /\ submitInFlight = << >>

\* C7, as stated: getBallot is called at most once per mount.
C7_AtMostOneBallotFetch == getBallotCalls <= 1

\* C7, amended: getBallot is called only by a run of the token effect, at most
\* once per run; the effect runs on mount and once more per change of the
\* location object, so the calls number at most one more than those changes,
\* and a re-render that leaves location unchanged adds none.
C7_OneFetchPerLocation ==
  [][ /\ getBallotCalls' # getBallotCalls
         => (EffectStep /\ getBallotCalls' = getBallotCalls + 1)
      /\ getBallotCalls' <= locChanges' + 1 ]_vars

\* the location changed once while the page was mounted, and the ballot was
\* fetched a second time
C7_Witness ==
  /\ page = "vote"
  /\ locChanges = 1
  /\ getBallotCalls = 2

HasEmptyPosition(resp) ==
  \E p \in OrEmpty(resp.posDef, resp.positions) :
    \A c \in OrEmpty(resp.candDef, resp.candidates) : CandPos(c) # p

\* C8, as stated: a fetched ballot with a position that has no candidate makes
\* loadBallot show the warning.
C8_WarningPerEmptyPosition ==
  (last.handler = "loadBallot.then" /\ HasEmptyPosition(last.resp))
    => last.toast = "noCandidates"

\* C8, amended: loadBallot shows the warning exactly when the response has at
\* least one position and a candidates list that is present and empty; with or
\* without the warning the returned positions and candidates are stored
\* (missing lists as empty ones), the stored token is kept and no navigation
\* happens.
C8_WarningWhenNoCandidatesAtAll ==
  [][ (BallotSettledStep /\ last'.handler = "loadBallot.then")
      => /\ last'.toast = "noCandidates"
            <=> ( /\ last'.resp.posDef /\ last'.resp.positions # {}
                  /\ last'.resp.candDef /\ last'.resp.candidates = {} )
         /\ last'.toast \in {"noCandidates", "none"}
         /\ ballotData'.loaded
         /\ ballotData'.positions = last'.resp.positions
         /\ ballotData'.candidates = last'.resp.candidates
         /\ page' = page
         /\ lsBallotToken' = lsBallotToken ]_vars

\* the warning was shown and the ballot's positions are stored, on the voting
\* page
C8_Witness ==
  /\ last.handler = "loadBallot.then"
  /\ last.toast = "noCandidates"
  /\ ballotData.loaded /\ ballotData.positions = Positions
  /\ page = "vote"

\* ------------------------------------------------------------------------
\* Properties of the login pages
\* ------------------------------------------------------------------------
HomeSubmitStep ==
  attempts' = attempts + 1 /\ lastLogin'.handler = "HomePage.onSubmit"
LoginSettledStep == Len(loginInFlight') < Len(loginInFlight)
HasAt(text) == \E i \in DOMAIN text : text[i] = "@"

\* C9: HomePage.onSubmit picks its flow from the identifier alone: with an '@'
\* it never requests an OTP (and calls authAPI.login with the identifier and
\* the password when a password was entered); without an '@' it requests an
\* OTP for the identifier and never calls authAPI.login, whatever the password
\* field holds.  Neither API is called by any other step of the page.
C9_FlowFromIdentifier ==
  [][ /\ HomeSubmitStep =>
           IF HasAt(lastLogin'.id)
           THEN /\ otpCalls' = otpCalls /\ otpInFlight' = otpInFlight
                /\ IF lastLogin'.pw \in {"short", "secret"}
                   THEN /\ loginCalls' = loginCalls + 1
                        /\ loginInFlight' = Append(loginInFlight,
                             [form |-> "home", mount |-> mountId,
                              email |-> lastLogin'.id, password |-> lastLogin'.pw])
                   ELSE loginCalls' = loginCalls /\ loginInFlight' = loginInFlight
           ELSE /\ otpCalls' = otpCalls + 1
                /\ otpInFlight' = Append(otpInFlight,
                     [mount |-> mountId, regNo |-> lastLogin'.id])
                /\ loginCalls' = loginCalls /\ loginInFlight' = loginInFlight
      /\ otpCalls' # otpCalls => HomeSubmitStep
      /\ (loginCalls' # loginCalls /\ route = "/") => HomeSubmitStep ]_vars

\* a registration number was submitted together with a password, and only an
\* OTP request went out
C9_Witness ==
  /\ lastLogin.handler = "HomePage.onSubmit"
  /\ ~HasAt(lastLogin.id) /\ lastLogin.pw = "secret"
  /\ otpCalls = 1 /\ Len(otpInFlight) = 1
  /\ loginCalls = 0

RoleDashboard(role) ==
  IF role = "ADMIN" THEN "/admin/dashboard"
  ELSE IF role = "OFFICER" THEN "/officer/dashboard"
  ELSE IF role = "CANDIDATE" THEN "/candidate/dashboard"
  ELSE "/"

LoginResolvedStep ==
  /\ LoginSettledStep
  /\ lastLogin'.handler \in {"HomePage.login.then", "Login.login.then"}

\* C10, as stated: every resolved login, on either page, is followed by exactly
\* one navigation, to the route its role maps to.
C10_RoleDecidesNavigation ==
  [][ LoginResolvedStep
      => /\ navCount' = navCount + 1
         /\ route' = RoleDashboard(lastLogin'.resp.user.role)
         /\ lastLogin'.nav = route' ]_vars

\* C10, amended: the same, except that HomePage does not navigate at all when
\* the response is an OFFICER whose status is INACTIVE; Login navigates for
\* every response.
C10_RoleDecidesNavigationUnlessDeactivated ==
  [][ LoginResolvedStep
      => IF /\ lastLogin'.handler = "HomePage.login.then"
            /\ lastLogin'.resp.user.role = "OFFICER"
            /\ lastLogin'.resp.user.status = "INACTIVE"
         THEN /\ navCount' = navCount
              /\ route' = route
              /\ lastLogin'.nav = "none"
         ELSE /\ navCount' = navCount + 1
              /\ route' = RoleDashboard(lastLogin'.resp.user.role)
              /\ lastLogin'.nav = route' ]_vars

\* an active officer signed in on HomePage and is on the officer dashboard
C10_Witness ==
  /\ lastLogin.handler = "HomePage.login.then"
  /\ lastLogin.resp.user.role = "OFFICER"
  /\ lastLogin.resp.user.status = "ACTIVE"
  /\ route = "/officer/dashboard"
  /\ navCount = 1

Dashboards == {"/admin/dashboard", "/officer/dashboard", "/candidate/dashboard"}

\* C11: a login handler navigates (to a dashboard, or to '/' for any other
\* role) only after it stored the response: at the navigation localStorage
\* 'token' holds the response token and 'user' the response user, not what an
\* earlier session left; and no other step of the login pages leads to a
\* dashboard.
C11_StoredBeforeRedirect ==
  [][ /\ (LoginResolvedStep /\ navCount' = navCount + 1)
         => /\ lsToken' = Item(lastLogin'.resp.token)
            /\ lsUser'.set /\ lsUser'.value = lastLogin'.resp.user
            /\ lsToken'.value # "old"
      /\ (route' # route /\ route' \in Dashboards)
         => (LoginResolvedStep /\ navCount' = navCount + 1) ]_vars

\* a candidate signed in through Login and reached the dashboard with the
\* response in storage
C11_Witness ==
  /\ lastLogin.handler = "Login.login.then"
  /\ route = "/candidate/dashboard"
  /\ lastLogin.resp.token = "s2"
  /\ lsToken = Item("s2")
  /\ lsUser = Item(lastLogin.resp.user)

\* one '@', with at least one character before it and one after it
WellFormedEmail(text) ==
  \E k \in 2..(Len(text) - 1) :
    text[k] = "@" /\ \A j \in (1..Len(text)) \ {k} : text[j] # "@"
LoginFormSubmitStep == attempts' = attempts + 1 /\ route = "/login"
ForgotFormSubmitStep == attempts' = attempts + 1 /\ route = "/forgot-password"

\* C12: validation gates the API calls.  Every authAPI.login request sent by
\* the Login form carries a well-formed email and a password of at least 6
\* characters, every authAPI.forgotPassword request a well-formed email; and
\* a submission of either form with an input that fails its schema sends no
\* request at all.
C12_ValidationGatesRequests ==
  [][ /\ (loginCalls' # loginCalls /\ route = "/login")
         => LET req == loginInFlight'[Len(loginInFlight')] IN
              /\ loginInFlight' = Append(loginInFlight, req)
              /\ req.email = lastLogin'.id /\ req.password = lastLogin'.pw
              /\ WellFormedEmail(req.email)
              /\ PasswordLength(req.password) >= 6
      /\ (forgotCalls' # forgotCalls)
         => LET req == forgotInFlight'[Len(forgotInFlight')] IN
              /\ forgotInFlight' = Append(forgotInFlight, req)
              /\ req.email = lastLogin'.id
              /\ WellFormedEmail(req.email)
      /\ ( /\ LoginFormSubmitStep
           /\ ~(WellFormedEmail(lastLogin'.id) /\ PasswordLength(lastLogin'.pw) >= 6) )
         => (loginCalls' = loginCalls /\ loginInFlight' = loginInFlight)
      /\ (ForgotFormSubmitStep /\ ~WellFormedEmail(lastLogin'.id))
         => (forgotCalls' = forgotCalls /\ forgotInFlight' = forgotInFlight)
      /\ (loginCalls' # loginCalls \/ forgotCalls' # forgotCalls)
         => attempts' = attempts + 1 ]_vars

\* two submissions that sent nothing, the second one on the forgot-password
\* page with the address "a@", which the schema refuses
C12_Witness ==
  /\ lastLogin.handler = "ForgotPasswordPage.handleSubmit"
  /\ lastLogin.id = << "a", "@" >>
  /\ attempts = 2
  /\ loginCalls = 0 /\ forgotCalls = 0 /\ otpCalls = 0
  /\ loginInFlight = << >> /\ forgotInFlight = << >>

\* ------------------------------------------------------------------------
\* Properties of the static server
\* ------------------------------------------------------------------------
Answered == stage = "done"
ByStatic == Answered /\ response.by = "static"

\* C13: a file sent by express.static whose path ends in '.html' carries
\* 'public, max-age=0, must-revalidate', one whose path ends in '.js' or
\* '.css' carries 'public, max-age=31536000, immutable', and the two rules
\* never meet on one file: a response has one Cache-Control value and no path
\* has both kinds of ending.
C13_CacheControlBySuffix ==
  ByStatic =>
    LET html == EndsWith(response.file, << ".", "h", "t", "m", "l" >>)
        asset == \/ EndsWith(response.file, << ".", "j", "s" >>)
                 \/ EndsWith(response.file, << ".", "c", "s", "s" >>)
    IN /\ html => response.cacheControl = HtmlCacheControl
       /\ asset => response.cacheControl = AssetCacheControl
       /\ ~(html /\ asset)
       /\ HtmlCacheControl # AssetCacheControl

\* a script of the build was sent, marked immutable
C13_Witness ==
  /\ ByStatic
  /\ request = [method |-> "GET", path |-> AppJs]
  /\ response.file = AppJs
  /\ response.cacheControl = AssetCacheControl

\* the first four characters of the path are '/api'
UnderApi(path) ==
  Len(path) >= 4 /\ path[1] = "/" /\ path[2] = "a" /\ path[3] = "p" /\ path[4] = "i"
ApiNotFound ==
  /\ response.status = 404
  /\ response.json = "API route not found"
  /\ response.file = << >>
IndexSent == response.status = 200 /\ response.file = IndexHtml

\* C14 as stated: a request that matches an existing file of dist is answered
\* with that file, any other request under '/api' with 404 and the JSON error,
\* every remaining request with index.html.
C14_SpaFallbackRouting ==
  Answered =>
    IF Exists(StaticFile(request.path))
    THEN response.status = 200 /\ response.file = StaticFile(request.path)
    ELSE IF UnderApi(request.path) THEN ApiNotFound
    ELSE IndexSent

\* C14, amended: the file is what a GET or HEAD request for it gets; every
\* other request (a request of another method for an existing file included)
\* gets 404 and the JSON error under '/api', and index.html elsewhere.
C14_SpaFallbackRoutingOfReads ==
  Answered =>
    IF request.method \in {"GET", "HEAD"} /\ Exists(StaticFile(request.path))
    THEN /\ response.status = 200 /\ response.file = StaticFile(request.path)
         /\ response.by = "static"
    ELSE IF UnderApi(request.path) THEN ApiNotFound /\ response.by = "fallback"
    ELSE IndexSent /\ response.by = "fallback"

\* the build has '/api.js': GET gets the file, and here a POST for it got the
\* JSON error of the '/api' branch
C14_Witness ==
  /\ Answered
  /\ ApiJs \in dist
  /\ request = [method |-> "POST", path |-> ApiJs]
  /\ ApiNotFound

\* C15 as stated: every response that delivers index.html, by express.static
\* or by the fallback, carries 'public, max-age=0, must-revalidate'.
C15_IndexAlwaysRevalidated ==
  (Answered /\ response.status = 200 /\ response.file = IndexHtml)
    => response.cacheControl = HtmlCacheControl

\* ------------------------------------------------------------------------
\* Properties of the login pages: sessions, failures, flags
\* ------------------------------------------------------------------------
InactiveOfficer(user) == user.role = "OFFICER" /\ user.status = "INACTIVE"
HomeHandlerStep ==
  lastLogin'.handler \in {"HomePage.onSubmit", "HomePage.requestOTP.then",
                          "HomePage.requestOTP.catch", "HomePage.login.then",
                          "HomePage.login.catch"}
HomeResolvedStep ==
  LoginSettledStep /\ lastLogin'.handler = "HomePage.login.then"
\* the component instance that sent the request is still the one on screen
StillMounted == lastLogin'.mount = mountId

\* C16: when HomePage receives the login response of an OFFICER with status
\* INACTIVE, it stores nothing of it, the 'token' and 'user' entries are gone
\* afterwards, no navigation happens and the page that sent the request shows
\* the deactivation error; and whenever a HomePage handler writes 'token' or
\* 'user', it writes the response of a user who is not an inactive officer.
C16_InactiveOfficerGetsNoSession ==
  [][ /\ (HomeResolvedStep /\ InactiveOfficer(lastLogin'.resp.user))
         => /\ ~lsToken'.set /\ ~lsUser'.set
            /\ route' = route /\ navCount' = navCount
            /\ lastLogin'.nav = "none"
            /\ StillMounted => (error' = DeactivatedMessage /\ ~formLoading')
      /\ (HomeHandlerStep /\ (lsToken'.set \/ lsUser'.set)
             /\ (lsToken' # lsToken \/ lsUser' # lsUser))
         => /\ HomeResolvedStep
            /\ ~InactiveOfficer(lastLogin'.resp.user)
            /\ lsToken' = Item(lastLogin'.resp.token)
            /\ lsUser'.set /\ lsUser'.value = lastLogin'.resp.user ]_vars

\* an earlier session was in storage when HomePage got the response of an
\* inactive officer: the entries are gone and the error is on screen
C16_Witness ==
  /\ lastLogin.handler = "HomePage.login.then"
  /\ InactiveOfficer(lastLogin.resp.user)
  /\ lsWelcome = JsonItem(OldWelcome)
  /\ ~lsToken.set /\ ~lsUser.set
  /\ route = "/"
  /\ error = DeactivatedMessage

LoginRejectedStep ==
  /\ LoginSettledStep
  /\ lastLogin'.handler \in {"HomePage.login.catch", "Login.login.catch"}

\* C17: when authAPI.login rejects, in Login or in HomePage's email flow, the
\* localStorage entries 'token', 'user' and 'welcomeMessage' are what they
\* were, no navigation happens, and the page that sent the request shows a
\* non-empty error message.
C17_FailedLoginKeepsSession ==
  [][ LoginRejectedStep
        => /\ lsToken' = lsToken /\ lsUser' = lsUser /\ lsWelcome' = lsWelcome
           /\ route' = route /\ navCount' = navCount
           /\ lastLogin'.nav = "none"
           /\ StillMounted => error' # "" ]_vars

\* with an earlier session in storage, a login on Login was refused with 401
C17_Witness ==
  /\ lastLogin.handler = "Login.login.catch"
  /\ error = "Invalid email or password."
  /\ route = "/login"
  /\ lsToken = Item("old")
  /\ lsUser = JsonItem(OldUser)
  /\ lsWelcome = JsonItem(OldWelcome)

OtpSettledStep == Len(otpInFlight') < Len(otpInFlight)
OtpResolvedStep ==
  OtpSettledStep /\ lastLogin'.handler = "HomePage.requestOTP.then"
OtpRejectedStep ==
  OtpSettledStep /\ lastLogin'.handler = "HomePage.requestOTP.catch"
VoterFlowStep ==
  \/ HomeSubmitStep /\ ~HasAt(lastLogin'.id)
  \/ OtpSettledStep
LocalStorageUnchanged ==
  lsToken' = lsToken /\ lsUser' = lsUser /\ lsWelcome' = lsWelcome
SessionStorageUnchanged ==
  ssPendingRegNo' = ssPendingRegNo /\ ssOtpSent' = ssOtpSent

\* C18: in HomePage's voter flow the request carries the identifier that was
\* entered; when requestOTP succeeds, sessionStorage 'pendingRegNo' gets that
\* identifier, 'otpAlreadySent' gets 'true' and the user goes to '/verify'
\* with it; when it fails, sessionStorage and the route stay as they were and
\* the page that sent the request shows a non-empty error.  SessionStorage
\* and the route to '/verify' change in no other step of the login pages, and
\* no step of the voter flow changes localStorage.
C18_OtpBeforeVerify ==
  [][ /\ (HomeSubmitStep /\ otpCalls' # otpCalls)
         => /\ otpInFlight' = Append(otpInFlight, otpInFlight'[Len(otpInFlight')])
            /\ otpInFlight'[Len(otpInFlight')].regNo = lastLogin'.id
      /\ OtpResolvedStep
         => \E i \in 1..Len(otpInFlight) :
              /\ otpInFlight' = RemoveAt(otpInFlight, i)
              /\ ssPendingRegNo' = Item(otpInFlight[i].regNo)
              /\ ssOtpSent' = Item("true")
              /\ route' = "/verify" /\ navCount' = navCount + 1
              /\ lastLogin'.nav = "/verify"
              /\ lastLogin'.id = otpInFlight[i].regNo
      /\ OtpRejectedStep
         => /\ SessionStorageUnchanged
            /\ route' = route /\ navCount' = navCount
            /\ StillMounted => error' # ""
      /\ (~SessionStorageUnchanged \/ (route' # route /\ route' = "/verify"))
         => OtpResolvedStep
      /\ VoterFlowStep => LocalStorageUnchanged ]_vars

\* the OTP for registration number "a" was sent and the user is on /verify,
\* with the session of an earlier login still in localStorage
C18_Witness ==
  /\ lastLogin.handler = "HomePage.requestOTP.then"
  /\ route = "/verify"
  /\ ssPendingRegNo = Item(<< "a" >>)
  /\ ssOtpSent = Item("true")
  /\ lsToken = Item("old")

\* C19: a submission of HomePage's email flow (an identifier with an '@')
\* whose password is empty or missing calls neither authAPI.login nor
\* requestOTP, sets the error 'Password is required for email login', leaves
\* localStorage as it was, navigates nowhere and ends with loading false.
C19_EmailFlowNeedsPassword ==
  [][ (HomeSubmitStep /\ HasAt(lastLogin'.id) /\ lastLogin'.pw \in {Undefined, ""})
        => /\ loginCalls' = loginCalls /\ loginInFlight' = loginInFlight
           /\ otpCalls' = otpCalls /\ otpInFlight' = otpInFlight
           /\ error' = "Password is required for email login"
           /\ ~formLoading'
           /\ LocalStorageUnchanged
           /\ route' = route /\ navCount' = navCount ]_vars

\* "a@a" was submitted with an empty password while an earlier session was in
\* storage: no request, the error, the session as before
C19_Witness ==
  /\ lastLogin.handler = "HomePage.onSubmit"
  /\ lastLogin.id = << "a", "@", "a" >>
  /\ lastLogin.pw = ""
  /\ error = "Password is required for email login"
  /\ loginCalls = 0 /\ loginInFlight = << >>
  /\ lsToken = Item("old")
  /\ route = "/"

ForgotSettledStep == Len(forgotInFlight') < Len(forgotInFlight)
\* a handler that was waiting for its request ran to its end
HandlerSettledStep == LoginSettledStep \/ OtpSettledStep \/ ForgotSettledStep
\* one of the three submit handlers was called
HandlerStartedStep ==
  /\ attempts' = attempts + 1
  /\ lastLogin'.handler \in {"HomePage.onSubmit", "Login.onSubmit",
                             "ForgotPasswordPage.handleSendResetCode"}
RequestSentStep ==
  \/ loginCalls' # loginCalls
  \/ otpCalls' # otpCalls
  \/ forgotCalls' # forgotCalls
\* the page on screen has a request that has not settled
OwnRequestInFlight ==
  \/ \E i \in 1..Len(loginInFlight) : loginInFlight[i].mount = mountId
  \/ \E i \in 1..Len(otpInFlight) : otpInFlight[i].mount = mountId
  \/ \E i \in 1..Len(forgotInFlight) : forgotInFlight[i].mount = mountId

\* C20: when one of the three submit handlers has run to its end, after its
\* request resolved or rejected or by the early return, loading of its page is
\* false; loading is true only while the page on screen waits for a request
\* of its own; and a handler that starts clears the error: after its first
\* step the error is empty, or it is the message of its own early return.
C20_LoadingReturnsToFalse ==
  [][ /\ (HandlerSettledStep /\ StillMounted) => ~formLoading'
      /\ (HandlerStartedStep /\ ~RequestSentStep) => ~formLoading'
      /\ formLoading' => OwnRequestInFlight'
      /\ (HandlerStartedStep /\ RequestSentStep) => (error' = "" /\ formLoading')
      /\ (HandlerStartedStep /\ ~RequestSentStep)
         => error' = "Password is required for email login" ]_vars

\* two logins on the same Login page were refused one after the other: the
\* form was free again after the first and is free again after the second
C20_Witness ==
  /\ lastLogin.handler = "Login.login.catch"
  /\ mountId = 0
  /\ loginCalls = 2 /\ loginInFlight = << >>
  /\ attempts = 2
  /\ ~formLoading
  /\ error # ""

\* ------------------------------------------------------------------------
\* Properties of all forms
\* ------------------------------------------------------------------------
\* how many requests of the page on screen have not settled
OwnRequests ==
  Cardinality({i \in 1..Len(loginInFlight) : loginInFlight[i].mount = mountId})
  + Cardinality({i \in 1..Len(otpInFlight) : otpInFlight[i].mount = mountId})
  + Cardinality({i \in 1..Len(forgotInFlight) : forgotInFlight[i].mount = mountId})

====
